---------------------------- MODULE Spec2Model ----------------------------
(*************************************************************************)
(* Athena: reconciliation and scoring engine.                            *)
(*                                                                       *)
(* A model of scoring/matcher.py (name normalisation, fuzzy matching,    *)
(* duplicate consolidation) and scoring/scorer.py (heat score, rising    *)
(* flag, rescoring pass) over the store of database/database.py.         *)
(*                                                                       *)
(* Strings that the code inspects character by character (company names) *)
(* are sequences of one-character strings.  A website is NULL or a       *)
(* parsed URL: whether it has a "//" authority part, and the labels of   *)
(* its host.                                                             *)
(*************************************************************************)
EXTENDS Integers, Sequences, FiniteSets, TLC

VARIABLES
    \* the committed store (database.py: companies, signals, programs)
    companies, signals, programs,
    \* find_potential_matches: one consolidation pass
    mpc, snap, buckets, domain_index, pairs, pos, seen_pairs, deleted_ids,
    merged, cur, tx, pre, passNo, others,
    \* score_all_companies / get_score_breakdown
    spc, rows, count, heat0, bd, rescored, today, SEVEN_DAYS_AGO,
    \* arguments and results of the pure functions
    fin, fout,
    \* find_cross_layer_matches: whether it has returned, and what
    xpc, matches

storeVars == <<companies, signals, programs>>
mergeVars == <<mpc, snap, buckets, domain_index, pairs, pos, seen_pairs,
               deleted_ids, merged, cur, tx, pre, passNo, others>>
scoreVars == <<spc, rows, count, heat0, bd, rescored, today, SEVEN_DAYS_AGO>>
funVars   == <<fin, fout>>
crossVars == <<xpc, matches>>
vars      == <<storeVars, mergeVars, scoreVars, funVars, crossVars>>

\* SQL NULL / Python None
None == "None"

-----------------------------------------------------------------------------
(* Character strings *)

UpperLetters == <<"A", "B", "C", "D", "E", "F", "G", "H", "I", "J", "K", "L", "M", "N", "O", "P", "Q", "R", "S", "T", "U", "V", "W", "X", "Y", "Z">>
LowerLetters == <<"a", "b", "c", "d", "e", "f", "g", "h", "i", "j", "k", "l", "m", "n", "o", "p", "q", "r", "s", "t", "u", "v", "w", "x", "y", "z">>

\* str.lower() on one character
LowerChar(c) ==
    IF \E i \in 1..Len(UpperLetters) : UpperLetters[i] = c
    THEN LowerLetters[CHOOSE i \in 1..Len(UpperLetters) : UpperLetters[i] = c]
    ELSE c

\* str.lower()
Lower(s) == [i \in 1..Len(s) |-> LowerChar(s[i])]

\* the characters str.strip() and str.rstrip() remove by default
Whitespace == {" ", "\t", "\n"}

\* the argument of the final rstrip of _normalize_name; the en dash and the
\* em dash are written as tokens
TrailingPunct == {" ", ".", ",", ";", ":", "-", "EN DASH", "EM DASH"}

\* s[:k]
Prefix(s, k) == SubSeq(s, 1, k)

\* s.rstrip(chars)
RECURSIVE RStrip(_, _)
RStrip(s, chars) ==
    IF Len(s) > 0 /\ s[Len(s)] \in chars
    THEN RStrip(Prefix(s, Len(s) - 1), chars)
    ELSE s

\* s.lstrip(chars)
RECURSIVE LStrip(_, _)
LStrip(s, chars) ==
    IF Len(s) > 0 /\ s[1] \in chars
    THEN LStrip(Tail(s), chars)
    ELSE s

\* s.strip()
Strip(s) == LStrip(RStrip(s, Whitespace), Whitespace)

\* s.endswith(suffix)
EndsWith(s, suffix) ==
    /\ Len(suffix) <= Len(s)
    /\ SubSeq(s, Len(s) - Len(suffix) + 1, Len(s)) = suffix

\* s.startswith(prefix)
StartsWith(s, prefix) ==
    /\ Len(prefix) <= Len(s)
    /\ Prefix(s, Len(prefix)) = prefix

\* b.startswith(a): a at the start of b only
ContainsAtStart(b, a) == StartsWith(b, a)

\* a in b (substring test)
Contains(b, a) ==
    \E i \in 0..(Len(b) - Len(a)) : SubSeq(b, i + 1, i + Len(a)) = a

\* len(s.split())
WordCount(s) ==
    Cardinality({i \in 1..Len(s) :
        /\ s[i] \notin Whitespace
        /\ (i = 1 \/ s[i - 1] \in Whitespace)})

-----------------------------------------------------------------------------
(* matcher.py: helpers *)

MIN_CONTAINMENT_LEN == 6

LEGAL_SUFFIXES ==
  << <<" ", "a", "g">>,
     <<" ", "s", "a">>,
     <<" ", "g", "m", "b", "h">>,
     <<" ", "l", "t", "d">>,
     <<" ", "i", "n", "c">>,
     <<" ", "i", "n", "c", ".">>,
     <<" ", "c", "o", ".">>,
     <<" ", "l", "l", "c">>,
     <<" ", "c", "o", "r", "p">>,
     <<" ", "c", "o", "r", "p", ".">> >>

\* hosts as sequences of labels: github.io is <<"github", "io">>
GENERIC_DOMAINS ==
    { <<"github", "io">>, <<"github", "com">>, <<"gitlab", "com">>,
      <<"vercel", "app">>, <<"netlify", "app">>, <<"herokuapp", "com">>,
      <<"linkedin", "com">>, <<"twitter", "com">>, <<"facebook", "com">>,
      <<"medium", "com">>, <<"wordpress", "com">> }

\* the loop of _normalize_name: every suffix of the tuple is tried once, in
\* the tuple's order, on the string as the earlier suffixes left it
RECURSIVE StripSuffixes(_, _)
StripSuffixes(n, i) ==
    IF i > Len(LEGAL_SUFFIXES) THEN n
    ELSE LET suffix == LEGAL_SUFFIXES[i]
         IN  StripSuffixes(
                 IF EndsWith(n, suffix)
                 THEN RStrip(Prefix(n, Len(n) - Len(suffix)), Whitespace)
                 ELSE n,
                 i + 1)

_normalize_name(name) ==
    RStrip(StripSuffixes(Strip(Lower(name)), 1), TrailingPunct)

title_starts ==
  { <<"i", " ", "b", "u", "i", "l", "t">>,
    <<"s", "h", "o", "w", " ", "h", "n">>,
    <<"l", "a", "u", "n", "c", "h", " ", "h", "n">>,
    <<"a", "s", "k", " ", "h", "n">>,
    <<"t", "e", "l", "l", " ", "h", "n">>,
    <<"a", " ">>,
    <<"a", "n", " ">>,
    <<"t", "h", "e", " ">>,
    <<"m", "y", " ">>,
    <<"w", "e", " ">>,
    <<"h", "o", "w", " ">>,
    <<"w", "h", "y", " ">>,
    <<"i", "f", " ">>,
    <<"w", "h", "a", "t", " ">> }

\* a title filter that looks at the start of the name only
StartsLikeTitle(name) ==
    \E p \in title_starts : StartsWith(Lower(name), p)

_is_likely_title(name) ==
    \/ \E p \in title_starts : StartsWith(Lower(name), p)
    \/ WordCount(name) > 6

\* str.lower() on a host label; the labels of the model that carry capitals
LowerLabel(l) ==
    CASE l = "WWW"    -> "www"
      [] l = "GitHub" -> "github"
      [] l = "Nova"   -> "nova"
      [] OTHER        -> l

\* A website column: NULL, or a text that is a URL with an authority part
\* ("https://host/...") or a text without one ("host/...", which urlparse
\* reads as a path).  The empty text has no labels and no authority.
NullUrl == [null |-> TRUE, authority |-> FALSE, host |-> <<>>]
Url(host) == [null |-> FALSE, authority |-> TRUE, host |-> host]
BareUrl(host) == [null |-> FALSE, authority |-> FALSE, host |-> host]

\* Python truth of a website value: not None and not ""
UrlPresent(url) == ~url.null /\ Len(url.host) > 0

\* the None that _extract_domain returns, among hosts
NoDomain == <<>>

\* urlparse(url).hostname or "": the host of the authority part, lower-cased
Hostname(url) ==
    IF url.authority
    THEN [i \in 1..Len(url.host) |-> LowerLabel(url.host[i])]
    ELSE <<>>

_extract_domain(url) ==
    IF ~UrlPresent(url) THEN NoDomain
    ELSE LET host == Hostname(url)
             h    == IF Len(host) > 1 /\ host[1] = "www" THEN Tail(host) ELSE host
         IN  IF Len(h) > 0 THEN h ELSE NoDomain

\* the share of the first string's bigrams that the second string has
BigramShareOfFirst(a, b) ==
    IF Len(a) < 2 \/ Len(b) < 2
    THEN [num |-> 0, den |-> 1]
    ELSE [num |-> Cardinality({SubSeq(a, i, i + 1) : i \in 1..(Len(a) - 1)}
                              \cap {SubSeq(b, i, i + 1) : i \in 1..(Len(b) - 1)}),
          den |-> Cardinality({SubSeq(a, i, i + 1) : i \in 1..(Len(a) - 1)})]

\* the set of character bigrams of a string
Bigrams(a) == {SubSeq(a, i, i + 1) : i \in 1..(Len(a) - 1)}

\* the Dice coefficient as the fraction num/den (den = 0 stands for 0.0)
_bigram_similarity(a, b) ==
    IF Len(a) < 2 \/ Len(b) < 2
    THEN [num |-> 0, den |-> 1]
    ELSE LET total == Cardinality(Bigrams(a)) + Cardinality(Bigrams(b))
         IN  IF total # 0
             THEN [num |-> 2 * Cardinality(Bigrams(a) \cap Bigrams(b)), den |-> total]
             ELSE [num |-> 0, den |-> 1]

\* sim >= 0.3
AtLeastThreeTenths(sim) == 10 * sim.num >= 3 * sim.den

NoMatch == [match |-> FALSE, reason |-> "", dom |-> NoDomain]

_is_fuzzy_match(name_a, name_b, website_a, website_b) ==
    IF _is_likely_title(name_a) \/ _is_likely_title(name_b) THEN NoMatch
    ELSE
    LET na    == _normalize_name(name_a)
        nb    == _normalize_name(name_b)
        dom_a == _extract_domain(website_a)
        dom_b == _extract_domain(website_b)
    IN  IF na = nb
        THEN [match |-> TRUE,
              reason |-> "exact name match (after suffix normalization)",
              dom |-> NoDomain]
        ELSE IF /\ dom_a # NoDomain /\ dom_b # NoDomain /\ dom_a = dom_b
                /\ dom_a \notin GENERIC_DOMAINS
                /\ AtLeastThreeTenths(_bigram_similarity(na, nb))
        THEN [match |-> TRUE, reason |-> "same domain", dom |-> dom_a]
        ELSE IF /\ Len(na) >= MIN_CONTAINMENT_LEN
                /\ Len(nb) >= MIN_CONTAINMENT_LEN
                /\ \/ Contains(nb, na) /\ Len(nb) - Len(na) <= 5
                   \/ Contains(na, nb) /\ Len(na) - Len(nb) <= 5
        THEN [match |-> TRUE, reason |-> "name containment match", dom |-> NoDomain]
        ELSE NoMatch


-----------------------------------------------------------------------------
(* database.py: the store.  companies, signals and programs map a row's   *)
(* id to the row; a database value (the committed one, or the working one *)
(* of an open transaction) is a record of the three tables.               *)

Store == [companies |-> companies, signals |-> signals, programs |-> programs]

\* Python truth of a text column: not None and not ""
Present(v) == v \notin {None, ""}

\* Python truth of a column of a company row
Truthy(field, v) == IF field = "website" THEN UrlPresent(v) ELSE Present(v)

\* the ids of a table ORDER BY id
RECURSIVE SortedIds(_)
SortedIds(S) ==
    IF S = {} THEN <<>>
    ELSE LET m == CHOOSE x \in S : \A y \in S : x <= y
         IN  <<m>> \o SortedIds(S \ {m})

\* a connection in autocommit mode (isolation_level = None), which
\* get_connection does not open: a statement is committed as it runs
CommittedAtOnce(committed, working) == working

\* sqlite3's implicit transaction: what the committed store is after a
\* statement ran on a connection that has not committed yet
CommittedAfterStatement(committed, working) == committed

\* UPDATE companies SET <updates> WHERE id = ?
UpdateCompany(db, id, updates) ==
    IF id \in DOMAIN db.companies
    THEN [db EXCEPT !.companies[id] =
             [f \in DOMAIN @ |-> IF f \in DOMAIN updates THEN updates[f] ELSE @[f]]]
    ELSE db

\* DELETE FROM <table> WHERE company_id = from: the rows of the removed
\* company dropped, where _merge_companies re-parents them
DropRowsOf(table, from, to) ==
    [r \in {x \in DOMAIN table : table[x].company_id # from} |-> table[r]]

\* UPDATE <table> SET company_id = to WHERE company_id = from
Reparent(table, from, to) ==
    [r \in DOMAIN table |->
        IF table[r].company_id = from THEN [table[r] EXCEPT !.company_id = to]
        ELSE table[r]]

\* FOREIGN KEY (company_id) REFERENCES companies (id), with foreign_keys = ON:
\* the statement raises IntegrityError when a row it wrote has no parent
ReparentViolatesFK(db, table, from, to) ==
    /\ \E r \in DOMAIN table : table[r].company_id = from
    /\ to \notin DOMAIN db.companies

\* DELETE FROM companies WHERE id = ? raises IntegrityError when a signal or
\* a program still references the row
DeleteViolatesFK(db, id) ==
    /\ id \in DOMAIN db.companies
    /\ \/ \E r \in DOMAIN db.signals : db.signals[r].company_id = id
       \/ \E r \in DOMAIN db.programs : db.programs[r].company_id = id

\* a DELETE that removes no row
DeleteNothing(db, id) == db

DeleteCompany(db, id) ==
    [db EXCEPT !.companies = [c \in (DOMAIN @) \ {id} |-> @[c]]]

-----------------------------------------------------------------------------
(* matcher.py: find_potential_matches and _merge_companies *)

_company_richness(company) ==
      (IF Present(company.description) THEN 2 ELSE 0)
    + (IF UrlPresent(company.website) THEN 2 ELSE 0)
    + (IF Present(company.city) THEN 1 ELSE 0)
    + (IF Present(company.sector) /\ company.sector # "Other" THEN 1 ELSE 0)
    + (IF Present(company.geography) /\ company.geography \notin {"Unknown", "Europe"}
       THEN 1 ELSE 0)
    + (IF Present(company.stage) /\ company.stage # "Unknown" THEN 1 ELSE 0)

\* the key of a company that enters no bucket
NoKey == <<>>

\* buckets[norm[:4]], for names whose normal form has at least 4 characters
NameKey(company) ==
    LET norm == _normalize_name(company.name)
    IN  IF Len(norm) >= 4 THEN Prefix(norm, 4) ELSE NoKey

\* domain_index[dom], for websites with a host that is not in GENERIC_DOMAINS
DomainKey(company) ==
    LET dom == _extract_domain(company.website)
    IN  IF dom # NoDomain /\ dom \notin GENERIC_DOMAINS THEN dom ELSE NoKey

\* a defaultdict(list) filled in the order of `order`: the buckets in the
\* order in which their keys first occur, each bucket in the order of `order`
BuildIndex(order, keys) ==
    LET idxs   == [i \in 1..Len(order) |-> i]
        firsts == SelectSeq(idxs, LAMBDA i :
                      keys[i] # NoKey /\ \A j \in 1..(i - 1) : keys[j] # keys[i])
    IN  [b \in 1..Len(firsts) |->
            LET members == SelectSeq(idxs, LAMBDA j : keys[j] = keys[firsts[b]])
            IN  [m \in 1..Len(members) |-> order[members[m]]]]

\* for i in range(len(bucket)): for j in range(i + 1, len(bucket))
RECURSIVE BucketPairs(_, _)
BucketPairs(bucket, i) ==
    IF i >= Len(bucket) THEN <<>>
    ELSE [j \in 1..(Len(bucket) - i) |-> <<bucket[i], bucket[i + j]>>]
         \o BucketPairs(bucket, i + 1)

\* for bucket in index.values()
RECURSIVE IndexPairs(_, _)
IndexPairs(index, b) ==
    IF b > Len(index) THEN <<>>
    ELSE BucketPairs(index[b], 1) \o IndexPairs(index, b + 1)

\* the fields _merge_companies writes on the keeper, computed from the two
\* dicts it is given
MergeUpdates(keep, remove) ==
    LET fill == {f \in {"description", "website", "city"} :
                    ~Truthy(f, keep[f]) /\ Truthy(f, remove[f])}
        sect == IF keep.sector \in {None, "Other"} /\ remove.sector \notin {None, "Other"}
                THEN {"sector"} ELSE {}
        geo  == IF keep.geography \in {None, "Unknown"}
                   /\ remove.geography \notin {None, "Unknown"}
                THEN {"geography"} ELSE {}
    IN  [f \in fill \cup sect \cup geo |-> remove[f]]

\* a connection without an open transaction
NoTx == [open |-> FALSE, log |-> <<>>, db |-> <<>>, base |-> <<>>]

\* the database a statement of the merge's connection runs on: the working
\* copy of its transaction, which begins at the connection's first UPDATE
Working == IF tx.open THEN tx.db ELSE Store

\* the transaction after a statement that left the working copy `db`
TxAfter(stmt, db) ==
    [open |-> TRUE, log |-> Append(tx.log, stmt), db |-> db,
     base |-> IF tx.open THEN tx.base ELSE Store]

NoCur == [ca |-> 0, cb |-> 0, keep |-> 0, remove |-> 0, reason |-> NoMatch]

\* a statement ran: the committed store is what the connection's
\* transaction discipline makes of it
StatementRan(stmt, db) ==
    /\ tx' = TxAfter(stmt, db)
    /\ companies' = CommittedAfterStatement(Store, db).companies
    /\ signals' = CommittedAfterStatement(Store, db).signals
    /\ programs' = CommittedAfterStatement(Store, db).programs

\* a statement raised IntegrityError: the exception leaves _merge_companies,
\* try_merge and find_potential_matches; the connection is dropped without a
\* commit, which rolls its transaction back
StatementRaised ==
    /\ tx' = [open |-> FALSE, log |-> tx.log, db |-> tx.db,
              base |-> IF tx.open THEN tx.base ELSE Store]
    /\ mpc' = "raised"
    /\ UNCHANGED storeVars

\* the number of consolidation passes a behaviour runs
MaxPasses == 2

\* the number of merges another process commits during a behaviour
MaxOtherMerges == 1

\* find_potential_matches, lines 161-186: read the companies and build the
\* two indexes
StartConsolidate ==
    /\ mpc \in {"idle", "done", "raised"}
    /\ passNo < MaxPasses
    /\ LET order == SortedIds(DOMAIN companies)
           names == BuildIndex(order, [i \in 1..Len(order) |-> NameKey(companies[order[i]])])
           doms  == BuildIndex(order, [i \in 1..Len(order) |-> DomainKey(companies[order[i]])])
       IN  /\ snap' = companies
           /\ buckets' = names
           /\ domain_index' = doms
           /\ pairs' = IndexPairs(names, 1) \o IndexPairs(doms, 1)
    /\ pos' = 1
    /\ seen_pairs' = {}
    /\ deleted_ids' = {}
    /\ merged' = <<>>
    /\ cur' = NoCur
    /\ tx' = NoTx
    /\ pre' = Store
    /\ passNo' = passNo + 1
    /\ mpc' = "pairs"
    /\ UNCHANGED <<storeVars, others, scoreVars, funVars, crossVars>>

\* a test that lets every pair through
NeverRemoved(a, b) == FALSE

\* try_merge, lines 197-198: one of the two ids was removed earlier in this
\* pass
AlreadyRemoved(a, b) == a \in deleted_ids \/ b \in deleted_ids

\* try_merge(ca, cb), lines 190-210, for the next pair of the two loops
TryMerge ==
    /\ mpc = "pairs"
    /\ pos <= Len(pairs)
    /\ LET a    == pairs[pos][1]
           b    == pairs[pos][2]
           ca   == snap[a]
           cb   == snap[b]
           pair == <<IF a < b THEN a ELSE b, IF a < b THEN b ELSE a>>
           m    == _is_fuzzy_match(ca.name, cb.name, ca.website, cb.website)
       IN  IF a = b \/ pair \in seen_pairs
           THEN /\ pos' = pos + 1
                /\ UNCHANGED <<mpc, seen_pairs, cur>>
           ELSE /\ seen_pairs' = seen_pairs \cup {pair}
                /\ IF AlreadyRemoved(a, b) \/ ~m.match
                   THEN /\ pos' = pos + 1
                        /\ UNCHANGED <<mpc, cur>>
                   ELSE /\ cur' = IF _company_richness(ca) >= _company_richness(cb)
                                  THEN [ca |-> a, cb |-> b, keep |-> a, remove |-> b, reason |-> m]
                                  ELSE [ca |-> a, cb |-> b, keep |-> b, remove |-> a, reason |-> m]
                        /\ mpc' = "merge_fill"
                        /\ UNCHANGED pos
    /\ tx' = NoTx
    /\ UNCHANGED <<storeVars, snap, buckets, domain_index, pairs, deleted_ids,
                   merged, pre, passNo, others, scoreVars, funVars, crossVars>>

\* _merge_companies, lines 236-249: fill the keeper's gaps
MergeFill ==
    /\ mpc = "merge_fill"
    /\ LET updates == MergeUpdates(snap[cur.keep], snap[cur.remove])
       IN  IF DOMAIN updates # {}
           THEN StatementRan("update companies", UpdateCompany(Working, cur.keep, updates))
           ELSE UNCHANGED <<tx, storeVars>>
    /\ mpc' = "merge_signals"
    /\ UNCHANGED <<snap, buckets, domain_index, pairs, pos, seen_pairs, deleted_ids,
                   merged, cur, pre, passNo, others, scoreVars, funVars, crossVars>>

\* _merge_companies, lines 252-255: move the signals to the keeper
MergeSignals ==
    /\ mpc = "merge_signals"
    /\ IF ReparentViolatesFK(Working, Working.signals, cur.remove, cur.keep)
       THEN StatementRaised
       ELSE /\ StatementRan("update signals",
                   [Working EXCEPT !.signals = Reparent(@, cur.remove, cur.keep)])
            /\ mpc' = "merge_programs"
    /\ UNCHANGED <<snap, buckets, domain_index, pairs, pos, seen_pairs, deleted_ids,
                   merged, cur, pre, passNo, others, scoreVars, funVars, crossVars>>

\* _merge_companies, lines 256-259: move the programs to the keeper
MergePrograms ==
    /\ mpc = "merge_programs"
    /\ IF ReparentViolatesFK(Working, Working.programs, cur.remove, cur.keep)
       THEN StatementRaised
       ELSE /\ StatementRan("update programs",
                   [Working EXCEPT !.programs = Reparent(@, cur.remove, cur.keep)])
            /\ mpc' = "merge_delete"
    /\ UNCHANGED <<snap, buckets, domain_index, pairs, pos, seen_pairs, deleted_ids,
                   merged, cur, pre, passNo, others, scoreVars, funVars, crossVars>>

\* _merge_companies, line 262: delete the duplicate
MergeDelete ==
    /\ mpc = "merge_delete"
    /\ IF DeleteViolatesFK(Working, cur.remove)
       THEN StatementRaised
       ELSE /\ StatementRan("delete company", DeleteCompany(Working, cur.remove))
            /\ mpc' = "merge_commit"
    /\ UNCHANGED <<snap, buckets, domain_index, pairs, pos, seen_pairs, deleted_ids,
                   merged, cur, pre, passNo, others, scoreVars, funVars, crossVars>>

\* _merge_companies, lines 263-264, and try_merge, lines 213-215
MergeCommit ==
    /\ mpc = "merge_commit"
    /\ companies' = tx.db.companies
    /\ signals' = tx.db.signals
    /\ programs' = tx.db.programs
    /\ tx' = [tx EXCEPT !.open = FALSE]
    /\ deleted_ids' = deleted_ids \cup {cur.remove}
    /\ merged' = Append(merged,
           [keep |-> snap[cur.keep].name, remove |-> snap[cur.remove].name,
            reason |-> cur.reason, keep_id |-> cur.keep, remove_id |-> cur.remove])
    /\ pos' = pos + 1
    /\ mpc' = "pairs"
    /\ UNCHANGED <<snap, buckets, domain_index, pairs, seen_pairs, cur, pre, passNo,
                   others, scoreVars, funVars, crossVars>>

\* find_potential_matches, line 229: both loops are over
FinishConsolidate ==
    /\ mpc = "pairs"
    /\ pos > Len(pairs)
    /\ mpc' = "done"
    /\ UNCHANGED <<storeVars, snap, buckets, domain_index, pairs, pos, seen_pairs,
                   deleted_ids, merged, cur, tx, pre, passNo, others, scoreVars,
                   funVars, crossVars>>


-----------------------------------------------------------------------------
(* scorer.py *)

\* a NULL in an INTEGER column (heat_score, previous_heat_score)
NullScore == -99

PROGRAM_TIERS(name) ==
    CASE name \in {"Entrepreneur First", "Seedcamp", "Y Combinator", "Techstars"} -> "A"
      [] name \in {"Venture Kick", "ETH AI Center"} -> "B"
      [] name \in {"Cambridge Enterprise", "Imperial Enterprise Lab"} -> "C"
      [] OTHER -> "D"

\* the points with tier B worth no more than tier C
TierPointsWithoutB(tier) ==
    CASE tier = "A" -> 4 [] tier = "B" -> 2 [] tier = "C" -> 2 [] OTHER -> 1

TIER_POINTS(tier) ==
    CASE tier = "A" -> 4 [] tier = "B" -> 3 [] tier = "C" -> 2 [] OTHER -> 1

\* the press outlets without Tech.eu
PressWithoutTechEu == {"Sifted", "TechCrunch", "EU-Startups"}

PRESS_SOURCES == {"Sifted", "Tech.eu", "TechCrunch", "EU-Startups"}

\* sorted(press_hits): the press sources in the order of their names
PressSorted == <<"EU-Startups", "Sifted", "Tech.eu", "TechCrunch">>

\* A timestamp column: NULL, a text none of the four formats parses, or a
\* parsable text, which stands for a day
NullTs == [kind |-> "null", day |-> 0]
BadTs == [kind |-> "unparsable", day |-> 0]
Ts(day) == [kind |-> "ok", day |-> day]

\* _parse_ts returned a datetime
_parse_ts(ts) == ts.kind = "ok"

\* A JSON value of a metadata object: an integer, null, a non-numeric text,
\* or no such key
JInt(n) == [t |-> "int", v |-> n]
JNull == [t |-> "null", v |-> 0]
JText == [t |-> "text", v |-> 0]
JMissing == [t |-> "missing", v |-> 0]

\* A metadata column: NULL or empty, a text that is not JSON, JSON that is
\* not an object (a number, a list, a string, null), or a JSON object
NullMeta == [kind |-> "null", points |-> JMissing, num_comments |-> JMissing]
InvalidMeta == [kind |-> "invalid", points |-> JMissing, num_comments |-> JMissing]
NonObjectMeta == [kind |-> "nonobject", points |-> JMissing, num_comments |-> JMissing]
ObjectMeta(points, num_comments) ==
    [kind |-> "object", points |-> points, num_comments |-> num_comments]

\* cohort.lower() for the cohort texts of the model
LowerCohort(c) ==
    CASE c = "Stage 2" -> "stage 2"
      [] c = "STAGE 3" -> "stage 3"
      [] c = "Stage 1" -> "stage 1"
      [] OTHER -> c

_get_program_tier(program) ==
    LET name   == program.program_name
        cohort == IF program.cohort = None THEN "" ELSE LowerCohort(program.cohort)
    IN  IF name = "Venture Kick" /\ cohort \in {"stage 2", "stage 3"}
        THEN "A"
        ELSE PROGRAM_TIERS(name)

\* int(data.get(key, 0)): the integer, or the exception int() raises
IntOf(j) ==
    CASE j.t = "int"     -> [ok |-> TRUE, v |-> j.v]
      [] j.t = "missing" -> [ok |-> TRUE, v |-> 0]
      [] OTHER           -> [ok |-> FALSE, v |-> 0]

\* _hn_stats: (points, comments), or raised: data.get on JSON that is not an
\* object raises AttributeError, which the except clause does not name
_hn_stats(signal) ==
    LET meta == signal.metadata
        zero == [raised |-> FALSE, points |-> 0, comments |-> 0]
    IN  CASE meta.kind = "null"      -> zero
          [] meta.kind = "invalid"   -> zero
          [] meta.kind = "nonobject" -> [raised |-> TRUE, points |-> 0, comments |-> 0]
          [] OTHER ->
               IF IntOf(meta.points).ok /\ IntOf(meta.num_comments).ok
               THEN [raised |-> FALSE, points |-> IntOf(meta.points).v,
                     comments |-> IntOf(meta.num_comments).v]
               ELSE zero

\* the first of two numbers, whichever is larger
FirstOf(a, b) == a

Max(a, b) == IF a >= b THEN a ELSE b

\* the second of two numbers, whichever is smaller
SecondOf(a, b) == b

Min(a, b) == IF a <= b THEN a ELSE b

\* the rows of a table that reference a company, in the order of their ids
RowsOf(table, company_id) ==
    LET ids == SortedIds({r \in DOMAIN table : table[r].company_id = company_id})
    IN  [i \in 1..Len(ids) |-> table[ids[i]]]

\* lines 131-139: the best tier and the program it was first seen on
RECURSIVE BestTier(_, _, _)
BestTier(ps, i, best) ==
    IF i > Len(ps) THEN best
    ELSE LET tier == _get_program_tier(ps[i])
         IN  BestTier(ps, i + 1,
                 IF TIER_POINTS(tier) > TIER_POINTS(best.tier)
                 THEN [tier |-> tier, label |-> ps[i].program_name]
                 ELSE best)

\* lines 165-171: the best points and the best comment count of the
\* HackerNews signals
RECURSIVE BestHN(_, _, _)
BestHN(ss, i, best) ==
    IF i > Len(ss) THEN best
    ELSE IF ss[i].source_name # "HackerNews" THEN BestHN(ss, i + 1, best)
    ELSE LET st == _hn_stats(ss[i])
         IN  IF st.raised THEN [best EXCEPT !.raised = TRUE]
             ELSE BestHN(ss, i + 1,
                      [raised |-> FALSE, points |-> Max(best.points, st.points),
                       comments |-> Max(best.comments, st.comments)])

\* the subsequence of a sequence of names that lies in a set
Among(names, S) == SelectSeq(names, LAMBDA n : n \in S)

\* the result of a call that raised an exception
Raised == [raised |-> TRUE, total |-> 0, reasons |-> <<>>,
           components |-> <<>>, rising |-> FALSE]

\* a rise of more than 2, where line 270 asks for 2 or more
RisingDeltaAboveTwo(total, prev) == total - prev > 2

\* total - prev >= 2, lines 266-271
RisingDelta(total, prev) == total - prev >= 2

\* get_score_breakdown(company_id) on database db, with datetime.now() on day
\* `now` and the module's SEVEN_DAYS_AGO on day `since`
get_score_breakdown(db, company_id, now, since) ==
    LET ps == RowsOf(db.programs, company_id)
        ss == RowsOf(db.signals, company_id)
        \* 1. program pedigree
        best   == BestTier(ps, 1, [tier |-> "D", label |-> None])
        unique == {ps[i].program_name : i \in 1..Len(ps)}
        bonus  == Len(ps) > 0 /\ Cardinality(unique) >= 2 /\ TIER_POINTS(best.tier) < 4
        pedigree == IF Len(ps) = 0 THEN 0
                    ELSE IF bonus THEN Min(TIER_POINTS(best.tier) + 1, 4)
                    ELSE TIER_POINTS(best.tier)
        r1 == (IF Len(ps) > 0 THEN <<"Program">> ELSE <<>>)
              \o (IF bonus THEN <<"Multi-program">> ELSE <<>>)
        \* 2. community buzz
        hn == BestHN(ss, 1, [raised |-> FALSE, points |-> 0, comments |-> 0])
        hnpts == IF hn.points >= 300 \/ hn.comments >= 100 THEN 3
                 ELSE IF hn.points >= 100 \/ hn.comments >= 50 THEN 2
                 ELSE IF hn.points > 0 THEN 1
                 ELSE 0
        sources == {ss[i].source_name : i \in 1..Len(ss)}
        ph    == "ProductHunt" \in sources
        press == Among(PressSorted, sources \cap PRESS_SOURCES)
        buzz  == Min(hnpts + (IF ph THEN 1 ELSE 0) + Len(press), 3)
        r2 == (CASE hnpts = 3 -> <<"HN viral">>
                 [] hnpts = 2 -> <<"HN traction">>
                 [] hnpts = 1 -> <<"HN signal">>
                 [] OTHER -> <<>>)
              \o (IF ph THEN <<"ProductHunt launch">> ELSE <<>>)
              \o [i \in 1..Len(press) |-> "Press"]
        \* 3. cross-source appearances
        n_sources == Cardinality(sources)
        cross == IF n_sources >= 3 THEN 2 ELSE IF n_sources = 2 THEN 1 ELSE 0
        r3 == IF cross > 0 THEN <<"Cross-source">> ELSE <<>>
        \* 4. recency boost
        recent(row) == _parse_ts(row.detected_at) /\ row.detected_at.day >= since
        recency == IF \/ \E i \in 1..Len(ss) : recent(ss[i])
                      \/ \E i \in 1..Len(ps) : recent(ps[i])
                   THEN 1 ELSE 0
        r4 == IF recency = 1 THEN <<"Recent activity">> ELSE <<>>
        score == pedigree + buzz + cross + recency
        total == Max(1, Min(score, 10))
        prev  == IF company_id \in DOMAIN db.companies
                 THEN db.companies[company_id].previous_heat_score
                 ELSE NullScore
    IN  IF hn.raised THEN Raised
        ELSE [raised |-> FALSE,
              total |-> total,
              reasons |-> r1 \o r2 \o r3 \o r4,
              components |-> [program |-> [score |-> pedigree, max |-> 4],
                              buzz |-> [score |-> buzz, max |-> 3],
                              sources |-> [score |-> cross, max |-> 2],
                              recency |-> [score |-> recency, max |-> 1]],
              rising |-> prev # NullScore /\ RisingDelta(total, prev)]

\* a pass without the UPDATE of line 290
NoSnapshot(table) == table

\* UPDATE companies SET previous_heat_score = heat_score (line 290)
\* a snapshot that resets every baseline to the floor
SnapshotOfFloor(table) ==
    [c \in DOMAIN table |-> [table[c] EXCEPT !.previous_heat_score = 1]]

SnapshotScores(table) ==
    [c \in DOMAIN table |-> [table[c] EXCEPT !.previous_heat_score = table[c].heat_score]]

\* a write that leaves the row alone when the new score is the floor of 1
WriteScoreAboveOne(table, cid, new_score) ==
    IF cid \in DOMAIN table /\ new_score > 1
    THEN [table EXCEPT ![cid].heat_score = new_score]
    ELSE table

\* update_company(cid, heat_score=new_score) (line 300)
WriteScore(table, cid, new_score) ==
    IF cid \in DOMAIN table THEN [table EXCEPT ![cid].heat_score = new_score] ELSE table

\* the number of rescoring passes a behaviour runs
MaxRescores == 2

\* score_all_companies, lines 287-296: the snapshot is committed, then the
\* ids are read.  SELECT id FROM companies has no ORDER BY: the rows are
\* scored in an order the model leaves open.
StartRescore ==
    /\ spc \in {"idle", "done", "raised"}
    /\ rescored < MaxRescores
    /\ companies' = SnapshotScores(companies)
    /\ rows' = DOMAIN companies
    /\ count' = 0
    /\ heat0' = [c \in DOMAIN companies |-> companies[c].heat_score]
    /\ rescored' = rescored + 1
    /\ spc' = "scoring"
    /\ UNCHANGED <<signals, programs, bd, today, SEVEN_DAYS_AGO, mergeVars, funVars, crossVars>>

\* score_all_companies, lines 297-301: one company of the loop; an exception
\* of calculate_heat_score leaves the loop and the function
ScoreNext ==
    /\ spc = "scoring"
    /\ \E cid \in rows :
           LET r == get_score_breakdown(Store, cid, today, SEVEN_DAYS_AGO)
           IN  /\ bd' = [id |-> cid, result |-> r]
               /\ IF r.raised
                  THEN /\ spc' = "raised"
                       /\ UNCHANGED <<companies, rows, count>>
                  ELSE /\ companies' = WriteScore(companies, cid, r.total)
                       /\ rows' = rows \ {cid}
                       /\ count' = count + 1
                       /\ UNCHANGED spc
    /\ UNCHANGED <<signals, programs, heat0, rescored, today, SEVEN_DAYS_AGO, mergeVars, funVars, crossVars>>

\* score_all_companies, line 303: return count
FinishRescore ==
    /\ spc = "scoring"
    /\ rows = {}
    /\ spc' = "done"
    /\ UNCHANGED <<storeVars, rows, count, heat0, bd, rescored, today, SEVEN_DAYS_AGO,
                   mergeVars, funVars, crossVars>>

\* a caller (the API, a main function) asks for the breakdown of a company
\* id, which may be the id of no company
Breakdown ==
    /\ spc \in {"idle", "done", "raised"}
    /\ \E cid \in DOMAIN companies \cup {0} :
           bd' = [id |-> cid, result |-> get_score_breakdown(Store, cid, today, SEVEN_DAYS_AGO)]
    /\ UNCHANGED <<storeVars, spc, rows, count, heat0, rescored, today, SEVEN_DAYS_AGO,
                   mergeVars, funVars, crossVars>>

-----------------------------------------------------------------------------
(* The stores the consolidation passes start from *)

\* the number of companies in the store
NumCompanies == 3

S_nova     == <<"n", "o", "v", "a">>
S_nova_ag  == <<"n", "o", "v", "a", " ", "a", "g">>
S_nova_inc == <<"n", "o", "v", "a", " ", "i", "n", "c">>
S_nova_ltd == <<"n", "o", "v", "a", " ", "l", "t", "d">>
S_Nova_AG  == <<"N", "o", "v", "a", " ", "A", "G">>
S_novel    == <<"n", "o", "v", "e", "l">>

Company(name, description, website, city, sector, geography) ==
    [name |-> name, description |-> description, website |-> website,
     city |-> city, sector |-> sector, geography |-> geography,
     stage |-> "Unknown", heat_score |-> 1, previous_heat_score |-> 1]

\* company rows as the scrapers insert them: some with a description, some
\* with a website, under names that normalise to the same or to similar names
Profiles ==
    { Company(S_nova, "d1", NullUrl, None, "Other", "Unknown"),
      Company(S_nova_ag, None, Url(<<"nova", "com">>), None, None, "Unknown"),
      Company(S_novel, "", Url(<<"www", "nova", "com">>), None, "AI", "Unknown"),
      Company(S_nova_inc, "d2", NullUrl, "Zurich", "Other", "Unknown"),
      Company(S_nova_ltd, None, BareUrl(<<"nova", "com">>), "Bern", "Other", "Unknown"),
      Company(S_Nova_AG, None, Url(<<"myproject", "GitHub", "io">>), None, None, "Switzerland") }

Signal(company_id, source_name, signal_layer, metadata, detected_at) ==
    [company_id |-> company_id, source_name |-> source_name,
     signal_layer |-> signal_layer, metadata |-> metadata,
     detected_at |-> detected_at]

Program(company_id, program_name, cohort, detected_at) ==
    [company_id |-> company_id, program_name |-> program_name,
     cohort |-> cohort, detected_at |-> detected_at]

NoBreakdown == [id |-> 0, result |-> Raised]

ScoreIdle ==
    /\ spc = "idle" /\ rows = {} /\ count = 0 /\ heat0 = <<>>
    /\ bd = NoBreakdown /\ rescored = 0

MergeIdle ==
    /\ mpc = "idle" /\ snap = <<>> /\ buckets = <<>> /\ domain_index = <<>>
    /\ pairs = <<>> /\ pos = 0 /\ seen_pairs = {} /\ deleted_ids = {}
    /\ merged = <<>> /\ cur = NoCur /\ tx = NoTx /\ pre = <<>> /\ passNo = 0
    /\ others = 0

FunIdle == fin = <<>> /\ fout = <<>>

CrossIdle == xpc = "idle" /\ matches = <<>>

\* a store of NumCompanies companies, one signal and one program, each row
\* referencing a company of the store (the foreign keys are enforced)
Init ==
    /\ companies \in [1..NumCompanies -> Profiles]
    /\ \E c \in 1..NumCompanies :
           signals = (1 :> Signal(c, "HackerNews", "realtime", NullMeta, NullTs))
    /\ \E c \in 1..NumCompanies :
           programs = (1 :> Program(c, "Seedcamp", None, NullTs))
    /\ MergeIdle
    /\ ScoreIdle
    /\ CrossIdle
    /\ today = 10 /\ SEVEN_DAYS_AGO = 3
    /\ FunIdle

\* A merge that another process running find_potential_matches commits:
\* _merge_companies on a pair of stored companies that it matched, the richer
\* one kept.  A connection commits only while no other connection holds an
\* open write transaction.
OtherPassMerge ==
    /\ mpc \in {"pairs", "merge_fill", "merge_signals"}
    /\ ~tx.open
    /\ others < MaxOtherMerges
    /\ \E k, r \in DOMAIN companies :
           /\ k # r
           /\ _is_fuzzy_match(companies[k].name, companies[r].name,
                              companies[k].website, companies[r].website).match
           /\ _company_richness(companies[k]) >= _company_richness(companies[r])
           /\ LET filled == UpdateCompany(Store, k, MergeUpdates(companies[k], companies[r]))
                  moved  == [filled EXCEPT !.signals = Reparent(@, r, k),
                                           !.programs = Reparent(@, r, k)]
                  db     == DeleteCompany(moved, r)
              IN  /\ companies' = db.companies
                  /\ signals' = db.signals
                  /\ programs' = db.programs
    /\ others' = others + 1
    /\ UNCHANGED <<mpc, snap, buckets, domain_index, pairs, pos, seen_pairs,
                   deleted_ids, merged, cur, tx, pre, passNo, scoreVars, funVars, crossVars>>

Next ==
    \/ StartConsolidate
    \/ TryMerge
    \/ MergeFill
    \/ MergeSignals
    \/ MergePrograms
    \/ MergeDelete
    \/ MergeCommit
    \/ FinishConsolidate

Spec == Init /\ [][Next]_vars

-----------------------------------------------------------------------------
(* The stores the rescoring passes start from *)

\* the number of companies in the store of a rescoring pass
NumScored == 2

\* (heat_score, previous_heat_score) of a company row: NULL, in range, or
\* out of the range 1..10
HeatPairs == { <<NullScore, NullScore>>, <<0, 1>>, <<11, 3>>, <<5, 7>> }

\* the signals and programs of one company
Evidence(ss, ps) == [signals |-> ss, programs |-> ps]

EvidenceBundles ==
    { Evidence(<<>>, <<>>),
      \* tier A and tier C, three sources, HackerNews 150 points / 60
      \* comments detected yesterday
      Evidence(<< Signal(0, "HackerNews", "realtime", ObjectMeta(JInt(150), JInt(60)), Ts(9)),
                  Signal(0, "Seedcamp", "curated", NullMeta, Ts(2)),
                  Signal(0, "Cambridge Enterprise", "curated", InvalidMeta, BadTs) >>,
               << Program(0, "Seedcamp", None, Ts(2)),
                  Program(0, "Cambridge Enterprise", "2024", NullTs) >>),
      \* a HackerNews signal whose metadata is JSON but no object
      Evidence(<< Signal(0, "HackerNews", "realtime", NonObjectMeta, Ts(2)) >>, <<>>),
      \* Venture Kick stage 2, a launch, HackerNews with null points
      Evidence(<< Signal(0, "HackerNews", "realtime", ObjectMeta(JNull, JInt(120)), Ts(2)),
                  Signal(0, "ProductHunt", "realtime", NullMeta, NullTs) >>,
               << Program(0, "Venture Kick", "Stage 2", Ts(12)) >>),
      \* an unlisted program, three press outlets and a little HackerNews
      Evidence(<< Signal(0, "Sifted", "realtime", NullMeta, Ts(1)),
                  Signal(0, "TechCrunch", "realtime", NullMeta, Ts(2)),
                  Signal(0, "EU-Startups", "realtime", NullMeta, Ts(2)),
                  Signal(0, "HackerNews", "realtime", ObjectMeta(JInt(5), JMissing), Ts(2)) >>,
               << Program(0, "Kickstart", None, Ts(2)) >>) }

\* the rows of the companies' bundles, row 10 * c + i for the i-th row of
\* company c
TableOf(bundle) ==
    [r \in UNION {{10 * c + i : i \in 1..Len(bundle[c])} : c \in DOMAIN bundle}
        |-> [bundle[r \div 10][r % 10] EXCEPT !.company_id = r \div 10]]

InitScore ==
    /\ \E hp \in [1..NumScored -> HeatPairs], ev \in [1..NumScored -> EvidenceBundles] :
           /\ companies = [c \in 1..NumScored |->
                  [Company(S_nova, None, NullUrl, None, None, None)
                       EXCEPT !.heat_score = hp[c][1],
                              !.previous_heat_score = hp[c][2]]]
           /\ signals = TableOf([c \in 1..NumScored |-> ev[c].signals])
           /\ programs = TableOf([c \in 1..NumScored |-> ev[c].programs])
    /\ MergeIdle
    /\ ScoreIdle
    /\ CrossIdle
    /\ today = 10 /\ SEVEN_DAYS_AGO \in {3, 1}
    /\ FunIdle

NextScore ==
    \/ StartRescore
    \/ ScoreNext
    \/ FinishRescore
    \/ Breakdown

SpecScore == InitScore /\ [][NextScore]_vars

-----------------------------------------------------------------------------
(* _normalize_name and _is_fuzzy_match on their own: the calls of a caller *)
(* that holds a name, or the names and websites of two records            *)

\* the number of pieces appended to the base of a name
MaxPieces == 2

\* the number of times _normalize_name is applied in a row
MaxApplications == 2

NormBases == { <<"x">>, S_nova }

\* legal suffixes in lower and upper case, trailing punctuation, a blank
NormPieces ==
    { <<" ", "a", "g">>, <<" ", "A", "G">>, <<" ", "i", "n", "c">>,
      <<" ", "i", "n", "c", ".">>, <<" ", "l", "t", "d">>, <<" ", "s", "a">>,
      <<".">>, <<" ">> }

RECURSIVE Concat(_)
Concat(ps) == IF ps = <<>> THEN <<>> ELSE Head(ps) \o Concat(Tail(ps))

NormInputs ==
    { base \o Concat(ps) :
        base \in NormBases,
        ps \in UNION {[1..k -> NormPieces] : k \in 0..MaxPieces} }

EmptyStore == companies = <<>> /\ signals = <<>> /\ programs = <<>>

InitNorm ==
    /\ fin \in NormInputs
    /\ fout = <<>>
    /\ EmptyStore
    /\ MergeIdle
    /\ ScoreIdle
    /\ CrossIdle
    /\ today = 10 /\ SEVEN_DAYS_AGO = 3

\* _normalize_name(name), on the input or on the result of the call before
Normalize ==
    /\ Len(fout) < MaxApplications
    /\ fout' = Append(fout, _normalize_name(IF fout = <<>> THEN fin ELSE fout[Len(fout)]))
    /\ UNCHANGED <<fin, storeVars, mergeVars, scoreVars, crossVars>>

NextNorm == Normalize

SpecNorm == InitNorm /\ [][NextNorm]_vars

MatchNames ==
    { S_nova, S_novel, S_nova_ag, S_Nova_AG,
      <<"n", "o", "v", "a", "l", "i", "s">>,
      <<"n", "o", "v", "a", "l", "i", "s", " ", "a", "i">>,
      <<"a", "i", " ", "n", "o", "v", "a", "l", "i", "s">>,
      <<"n", "o", "v", "a", "l", "i", "s", " ", "s", "y", "s", "t", "e", "m", "s">>,
      <<"A", "I">>,
      <<"A", "I", " ", "L", "a", "b", "s">>,
      <<"k", "i", "t", "e">>,
      <<"S", "h", "o", "w", " ", "H", "N", " ", "n", "o", "v", "a">>,
      <<"t", "h", "e", " ", "n", "o", "v", "a">>,
      <<"n", " ", "o", " ", "v", " ", "a", " ", "l", " ", "i", " ", "s">> }

MatchWebsites ==
    { NullUrl,
      Url(<<"myproject", "github", "io">>),
      Url(<<"other", "github", "io">>),
      Url(<<"github", "io">>),
      Url(<<"www", "GitHub", "io">>),
      Url(<<"myproject", "vercel", "app">>),
      Url(<<"nova", "com">>),
      BareUrl(<<"myproject", "github", "io">>) }

InitMatch ==
    /\ fin \in [name_a : MatchNames, name_b : MatchNames,
                website_a : MatchWebsites, website_b : MatchWebsites]
    /\ fout = <<>>
    /\ EmptyStore
    /\ MergeIdle
    /\ ScoreIdle
    /\ CrossIdle
    /\ today = 10 /\ SEVEN_DAYS_AGO = 3

\* the two places that compare the domains of a pair of records: the call
\* _is_fuzzy_match(name_a, name_b, website_a, website_b) of try_merge, and
\* the domain index find_potential_matches builds of the two records
\* (lines 180-184)
MatchPair ==
    /\ fout = <<>>
    /\ LET a == Company(fin.name_a, None, fin.website_a, None, None, None)
           b == Company(fin.name_b, None, fin.website_b, None, None, None)
       IN  fout' = << [is_match |-> _is_fuzzy_match(fin.name_a, fin.name_b,
                                                      fin.website_a, fin.website_b),
                       domain_index |-> BuildIndex(<<1, 2>>, <<DomainKey(a), DomainKey(b)>>)] >>
    /\ UNCHANGED <<fin, storeVars, mergeVars, scoreVars, crossVars>>

NextMatch == MatchPair

SpecMatch == InitMatch /\ [][NextMatch]_vars

\* the passes of Spec, with merges of a second process in between
NextConc == Next \/ OtherPassMerge

SpecConc == Init /\ [][NextConc]_vars


-----------------------------------------------------------------------------
(* Consolidation: claims *)

\* the ids the pass has removed, and the company that absorbed each
RemovedIds == {merged[i].remove_id : i \in 1..Len(merged)}
AbsorbedBy(id) == merged[CHOOSE i \in 1..Len(merged) : merged[i].remove_id = id].keep_id

\* the company that holds, after the merges so far, what company `id` held
\* when the pass started: the end of the chain of absorptions
RECURSIVE Survivor(_)
Survivor(id) == IF id \in RemovedIds THEN Survivor(AbsorbedBy(id)) ELSE id

\* C2: a second consolidation pass run right after a first one performs no
\* merge: its merge report is empty.
C2_SecondPassMergesNothing ==
    (passNo >= 2 /\ mpc = "done") => merged = <<>>

\* C3: after a consolidation pass every signal and program row of before
\* the pass still exists, references a company of the store, and references
\* the company that (through the chain of merges) absorbed the company it
\* referenced; the companies that are gone are exactly the removed sides of
\* the pass's merges.
C3_RowsReparentedNeverDestroyed ==
    mpc = "done" =>
        /\ DOMAIN signals = DOMAIN pre.signals
        /\ DOMAIN programs = DOMAIN pre.programs
        /\ \A r \in DOMAIN signals :
               /\ signals[r].company_id \in DOMAIN companies
               /\ signals[r].company_id = Survivor(pre.signals[r].company_id)
               /\ [signals[r] EXCEPT !.company_id = 0]
                      = [pre.signals[r] EXCEPT !.company_id = 0]
        /\ \A r \in DOMAIN programs :
               /\ programs[r].company_id \in DOMAIN companies
               /\ programs[r].company_id = Survivor(pre.programs[r].company_id)
               /\ [programs[r] EXCEPT !.company_id = 0]
                      = [pre.programs[r] EXCEPT !.company_id = 0]
        /\ DOMAIN companies = (DOMAIN pre.companies) \ RemovedIds
        /\ Cardinality(RemovedIds) = Len(merged)

\* C3's case: a pass ended in which a keeper of an earlier merge was itself
\* absorbed later, and a signal and a program went along the whole chain
C3_Witness ==
    /\ mpc = "done"
    /\ \E i, j \in 1..Len(merged) : i < j /\ merged[i].keep_id = merged[j].remove_id
    /\ \E r \in DOMAIN signals :
           /\ pre.signals[r].company_id \in RemovedIds
           /\ AbsorbedBy(pre.signals[r].company_id) \in RemovedIds
    /\ \E r \in DOMAIN programs : pre.programs[r].company_id \in RemovedIds

\* C7: in every merge of a pass the keeper's stored description, website and
\* city change only if the stored value was absent when the merge ran.
C7_FillsOnlyAbsentFields ==
    mpc = "merge_commit" =>
        \A f \in {"description", "website", "city"} :
            tx.db.companies[cur.keep][f] # companies[cur.keep][f]
                => ~Truthy(f, companies[cur.keep][f])

\* C8: in every merge of a pair (ca, cb) the survivor is the record with the
\* higher richness, ca on a tie, for the richness of the records as they
\* stand in the store when the merge runs.
C8_RicherRecordSurvives ==
    mpc = "merge_commit" =>
        cur.keep = IF _company_richness(companies[cur.ca])
                        >= _company_richness(companies[cur.cb])
                   THEN cur.ca ELSE cur.cb

\* the merge _merge_companies(keep, remove) applied as a whole to a database
FullMerge(db, keep, remove) ==
    LET filled == UpdateCompany(db, keep, MergeUpdates(snap[keep], snap[remove]))
        moved  == [filled EXCEPT !.signals = Reparent(@, remove, keep),
                                 !.programs = Reparent(@, remove, keep)]
    IN  DeleteCompany(moved, remove)

\* C4: a merge is atomic: while its transaction is open the committed store
\* is the store of before the merge, what it commits is the whole merge, and
\* a merge that failed has committed nothing.
C4_MergeIsAtomic ==
    /\ tx.open => Store = tx.base
    /\ mpc = "merge_commit" => tx.db = FullMerge(tx.base, cur.keep, cur.remove)
    /\ mpc = "raised" => Store = tx.base

\* C4's case: a merge about to commit that filled a field of the keeper and
\* moved a signal and a program, none of which is in the committed store yet
C4_Witness ==
    /\ mpc = "merge_commit"
    /\ tx.db.companies[cur.keep] # tx.base.companies[cur.keep]
    /\ tx.db.signals # tx.base.signals
    /\ tx.db.programs # tx.base.programs
    /\ cur.remove \in DOMAIN companies

\* a merge failed on its foreign keys after a statement of it had run
C4_FailedMergeReached ==
    mpc = "raised" /\ Len(tx.log) > 0

-----------------------------------------------------------------------------
(* Rescoring *)

\* C1: after a call of score_all_companies has ended, by its return or by an
\* exception, every company of the store has a heat_score in 1..10
C1_HeatScoreInRangeAfterRescore ==
    spc \in {"done", "raised"} =>
        \A c \in DOMAIN companies : companies[c].heat_score \in 1..10

\* C5: from the first score of a pass to the pass's end, the
\* previous_heat_score of every company is the heat_score the company had
\* when the pass started
C5_SnapshotPrecedesEveryScore ==
    spc \in {"scoring", "done", "raised"} =>
        \A c \in DOMAIN companies : companies[c].previous_heat_score = heat0[c]

\* a pass has ended that gave a company a new score and an earlier pass's
\* baseline was replaced
C5_Witness ==
    /\ spc = "done"
    /\ count = NumScored
    /\ \E c \in DOMAIN companies :
           /\ companies[c].heat_score # heat0[c]
           /\ companies[c].previous_heat_score = heat0[c]

\* C6: every call of get_score_breakdown that returns has rising = TRUE
\* exactly when the company's row exists, its previous_heat_score is not
\* NULL and total - previous_heat_score >= 2
C6_RisingIffDeltaAtLeastTwo ==
    [][ (bd' # bd /\ ~bd'.result.raised) =>
            LET known == bd'.id \in DOMAIN companies
                prev  == IF known THEN companies[bd'.id].previous_heat_score
                         ELSE NullScore
            IN  bd'.result.rising =
                    (known /\ prev # NullScore /\ bd'.result.total - prev >= 2)
      ]_vars

\* a breakdown with rising = TRUE was returned for a company whose total is
\* exactly 2 above its previous_heat_score
C6_Witness ==
    /\ bd.id \in DOMAIN companies
    /\ ~bd.result.raised
    /\ bd.result.rising
    /\ bd.result.total - companies[bd.id].previous_heat_score = 2

-----------------------------------------------------------------------------
(* Pure functions of the matcher *)

\* C9: _normalize_name applied to its own result returns that result
C9_NormalizeIsIdempotent ==
    Len(fout) >= 2 => fout[2] = fout[1]

\* the host of a website lies on a denylisted hosting domain: it is the
\* domain or a subdomain of it
OnGenericHost(url) ==
    LET h == Hostname(url)
    IN  \E g \in GENERIC_DOMAINS :
            /\ Len(h) >= Len(g)
            /\ SubSeq(h, Len(h) - Len(g) + 1, Len(h)) = g

\* the containment rule of _is_fuzzy_match on two normalized names
ContainmentRule(na, nb) ==
    /\ Len(na) >= MIN_CONTAINMENT_LEN
    /\ Len(nb) >= MIN_CONTAINMENT_LEN
    /\ \/ Contains(nb, na) /\ Len(nb) - Len(na) <= 5
       \/ Contains(na, nb) /\ Len(na) - Len(nb) <= 5

\* C10: two records whose websites both lie on a denylisted hosting domain,
\* whose normalized names differ and do not satisfy the containment rule, do
\* not match (FALSE, "") and share no bucket of the domain index
C10_GenericHostsNeverMatch ==
    (/\ fout # <<>>
     /\ OnGenericHost(fin.website_a)
     /\ OnGenericHost(fin.website_b)
     /\ _normalize_name(fin.name_a) # _normalize_name(fin.name_b)
     /\ ~ContainmentRule(_normalize_name(fin.name_a), _normalize_name(fin.name_b)))
    => /\ ~fout[1].is_match.match
       /\ fout[1].is_match.reason = ""
       /\ \A b \in DOMAIN fout[1].domain_index :
              Len(fout[1].domain_index[b]) < 2

\* the domain rule of _is_fuzzy_match applies to the pair fin
DomainRuleApplies ==
    LET dom_a == _extract_domain(fin.website_a)
        dom_b == _extract_domain(fin.website_b)
    IN  /\ dom_a # NoDomain /\ dom_b # NoDomain /\ dom_a = dom_b
        /\ dom_a \notin GENERIC_DOMAINS
        /\ AtLeastThreeTenths(_bigram_similarity(_normalize_name(fin.name_a),
                                                 _normalize_name(fin.name_b)))

\* short occurs in long as a run of consecutive characters, with at most 5
\* characters of long outside it
SubstringWithFiveExtra(short, long) ==
    /\ Len(long) - Len(short) \in 0..5
    /\ \E k \in 1..(Len(long) - Len(short) + 1) :
           \A i \in 1..Len(short) : long[k + i - 1] = short[i]

\* C11: for two names that pass the title filter, differ after
\* normalization and do not match by domain, the result is
\* (TRUE, "name containment match") exactly when both normalized names have
\* at least 6 characters and one lies in the other with at most 5 extra
\* characters; otherwise it is (FALSE, "")
C11_ContainmentMatchIff ==
    (/\ fout # <<>>
     /\ ~_is_likely_title(fin.name_a) /\ ~_is_likely_title(fin.name_b)
     /\ _normalize_name(fin.name_a) # _normalize_name(fin.name_b)
     /\ ~DomainRuleApplies)
    => LET na == _normalize_name(fin.name_a)
           nb == _normalize_name(fin.name_b)
           rule == /\ Len(na) >= 6 /\ Len(nb) >= 6
                   /\ \/ SubstringWithFiveExtra(na, nb)
                      \/ SubstringWithFiveExtra(nb, na)
       IN  IF rule
           THEN /\ fout[1].is_match.match
                /\ fout[1].is_match.reason = "name containment match"
           ELSE /\ ~fout[1].is_match.match
                /\ fout[1].is_match.reason = ""

\* a name was matched to a longer name that carries it after a leading word
C11_Witness ==
    /\ fout # <<>>
    /\ _normalize_name(fin.name_a) = <<"n", "o", "v", "a", "l", "i", "s">>
    /\ _normalize_name(fin.name_b) = <<"a", "i", " ", "n", "o", "v", "a", "l", "i", "s">>
    /\ ~DomainRuleApplies
    /\ fout[1].is_match.match
    /\ fout[1].is_match.reason = "name containment match"

-----------------------------------------------------------------------------
(* _bigram_similarity on its own *)

\* the length of the longest string given to _bigram_similarity
MaxSimLen == 3

\* the strings over two characters of length 0..MaxSimLen
SimStrings == UNION {[1..k -> {"a", "b"}] : k \in 0..MaxSimLen}

InitSim ==
    /\ fin \in [a : SimStrings, b : SimStrings]
    /\ fout = <<>>
    /\ EmptyStore
    /\ MergeIdle
    /\ ScoreIdle
    /\ CrossIdle
    /\ today = 10 /\ SEVEN_DAYS_AGO = 3

\* _bigram_similarity(a, b), then _bigram_similarity(b, a)
Similarity ==
    /\ Len(fout) < 2
    /\ fout' = Append(fout, IF fout = <<>> THEN _bigram_similarity(fin.a, fin.b)
                            ELSE _bigram_similarity(fin.b, fin.a))
    /\ UNCHANGED <<fin, storeVars, mergeVars, scoreVars, crossVars>>

NextSim == Similarity

SpecSim == InitSim /\ [][NextSim]_vars

\* C12: sim(a, b) = sim(b, a); sim(a, a) = 1.0 for a of length 2 or more;
\* sim is 0.0 when one of the strings has fewer than 2 characters
C12_SimilaritySymmetricAndReflexive ==
    Len(fout) = 2 =>
        /\ fout[1].den > 0 /\ fout[2].den > 0
        /\ fout[1].num * fout[2].den = fout[2].num * fout[1].den
        /\ (fin.a = fin.b /\ Len(fin.a) >= 2) => fout[1].num = fout[1].den
        /\ (Len(fin.a) < 2 \/ Len(fin.b) < 2) => fout[1].num = 0

\* both calls were made on two different strings that share some, not all,
\* of their bigrams
C12_Witness ==
    /\ Len(fout) = 2
    /\ fin.a # fin.b
    /\ fout[1].num > 0
    /\ fout[1].num < fout[1].den

-----------------------------------------------------------------------------
(* matcher.py: find_cross_layer_matches *)

\* the characters of the names, in the order of their code points (the
\* BINARY collation of ORDER BY c.name)
CharOrder == <<" ", ".">> \o UpperLetters \o LowerLetters

CodePoint(c) == CHOOSE i \in 1..Len(CharOrder) : CharOrder[i] = c

\* a <= b for two TEXT values
RECURSIVE NameLeq(_, _)
NameLeq(a, b) ==
    IF a = <<>> THEN TRUE
    ELSE IF b = <<>> THEN FALSE
    ELSE IF Head(a) # Head(b) THEN CodePoint(Head(a)) < CodePoint(Head(b))
    ELSE NameLeq(Tail(a), Tail(b))

\* the values of a column in the signals joined to a company; the DISTINCT
\* aggregates leave NULL out
DistinctOf(db, company_id, column) ==
    {db.signals[r][column] :
        r \in {x \in DOMAIN db.signals : db.signals[x].company_id = company_id}}
    \ {None}

\* HAVING COUNT(DISTINCT s.signal_layer) > 1, over the groups of the JOIN
CrossLayerIds(db) ==
    {c \in DOMAIN db.companies :
        Cardinality(DistinctOf(db, c, "signal_layer")) > 1}

\* ORDER BY source_count ASC, c.name, where the query sorts DESC
FewerSourcesFirst(db, x, y) ==
    LET cx == Cardinality({db.signals[r].source_name :
                  r \in {z \in DOMAIN db.signals : db.signals[z].company_id = x}} \ {None})
        cy == Cardinality({db.signals[r].source_name :
                  r \in {z \in DOMAIN db.signals : db.signals[z].company_id = y}} \ {None})
    IN  \/ cx < cy
        \/ cx = cy /\ NameLeq(db.companies[x].name, db.companies[y].name)

\* ORDER BY source_count DESC, c.name: x may stand before y
CrossLayerBefore(db, x, y) ==
    LET cx == Cardinality(DistinctOf(db, x, "source_name"))
        cy == Cardinality(DistinctOf(db, y, "source_name"))
    IN  \/ cx > cy
        \/ cx = cy /\ NameLeq(db.companies[x].name, db.companies[y].name)

\* the orders in which the first query may return its rows: rows with equal
\* keys come in an order SQL leaves open
CrossLayerRows(db) ==
    LET ids == CrossLayerIds(db)
        n   == Cardinality(ids)
    IN  {o \in [1..n -> ids] :
            /\ \A i, j \in 1..n : i # j => o[i] # o[j]
            /\ \A i, j \in 1..n : i < j => CrossLayerBefore(db, o[i], o[j])}

\* lines 285-298: the dict appended for a row of the first query; sources is
\* the set of the names GROUP_CONCAT joins, signals the columns of the
\* second query
CrossLayerMatch(db, id) ==
    LET sigs == RowsOf(db.signals, id)
    IN  [id |-> id,
         name |-> db.companies[id].name,
         sector |-> db.companies[id].sector,
         geography |-> db.companies[id].geography,
         heat_score |-> db.companies[id].heat_score,
         sources |-> DistinctOf(db, id, "source_name"),
         signals |-> [i \in 1..Len(sigs) |->
                         [source_name |-> sigs[i].source_name,
                          signal_layer |-> sigs[i].signal_layer]]]

\* the store after a DELETE FROM signals that was committed
AfterDeletingSignals(db) == [db EXCEPT !.signals = <<>>]

\* the store after the statements of find_cross_layer_matches, which are
\* SELECTs on a connection that is closed without a commit
AfterSelects(db) == db

\* find_cross_layer_matches, lines 271-302
find_cross_layer_matches ==
    /\ xpc = "idle"
    /\ \E o \in CrossLayerRows(Store) :
           matches' = [i \in 1..Len(o) |-> CrossLayerMatch(Store, o[i])]
    /\ xpc' = "done"
    /\ companies' = AfterSelects(Store).companies
    /\ signals' = AfterSelects(Store).signals
    /\ programs' = AfterSelects(Store).programs
    /\ UNCHANGED <<mergeVars, scoreVars, funVars>>

\* api/main.py, lines 65-66: the signal_layer values of the company's
\* signals hold both "curated" and "realtime"
is_cross_layer(db, cid) ==
    LET layers == {db.signals[r].signal_layer :
                      r \in {x \in DOMAIN db.signals : db.signals[x].company_id = cid}}
    IN  "curated" \in layers /\ "realtime" \in layers

\* _build_company_response(company_row, conn) of the API, for a company of
\* the store: the row's fields, the flag and the score breakdown
_build_company_response ==
    /\ \E cid \in DOMAIN companies :
           fout' = << [id |-> cid,
                       name |-> companies[cid].name,
                       heat_score |-> companies[cid].heat_score,
                       is_cross_layer |-> is_cross_layer(Store, cid),
                       score_breakdown |->
                           get_score_breakdown(Store, cid, today, SEVEN_DAYS_AGO)] >>
    /\ UNCHANGED <<fin, storeVars, mergeVars, scoreVars, crossVars>>

\* the number of companies in the store find_cross_layer_matches reads
NumCross == 3

CrossNames == { S_nova, S_Nova_AG }

CrossSignal(source_name, signal_layer) ==
    Signal(0, source_name, signal_layer, NullMeta, NullTs)

\* the signals of one company: none; one layer; two layers from two sources
\* and from one; a layer and a NULL layer; three sources and a layer that
\* is neither curated nor realtime; a NULL source name; the curated layer
\* and a layer that is neither curated nor realtime
CrossBundles ==
    { <<>>,
      << CrossSignal("HackerNews", "realtime") >>,
      << CrossSignal("HackerNews", "realtime"), CrossSignal("Seedcamp", "curated") >>,
      << CrossSignal("HackerNews", "realtime"), CrossSignal("HackerNews", "curated") >>,
      << CrossSignal("Seedcamp", "curated"), CrossSignal("Sifted", None) >>,
      << CrossSignal("Seedcamp", "curated"), CrossSignal("Sifted", "editorial"),
         CrossSignal("HackerNews", "realtime") >>,
      << CrossSignal(None, "realtime"), CrossSignal("Seedcamp", "curated") >>,
      << CrossSignal("Seedcamp", "curated"), CrossSignal("Sifted", "editorial") >> }

InitCross ==
    /\ \E nm \in [1..NumCross -> CrossNames], sg \in [1..NumCross -> CrossBundles] :
           /\ companies = [c \in 1..NumCross |->
                              Company(nm[c], None, NullUrl, None, None, None)]
           /\ signals = TableOf(sg)
    /\ programs = <<>>
    /\ MergeIdle
    /\ ScoreIdle
    /\ CrossIdle
    /\ today = 10 /\ SEVEN_DAYS_AGO = 3
    /\ FunIdle

NextCross == find_cross_layer_matches \/ _build_company_response

SpecCross == InitCross /\ [][NextCross]_vars

\* the signals of the store that reference a company
SignalsOf(c) == {r \in DOMAIN signals : signals[r].company_id = c}

\* the number of distinct source names among a company's signals
SourceNames(c) == {signals[r].source_name : r \in SignalsOf(c)} \ {None}

\* C13: find_cross_layer_matches returns exactly the companies whose signals
\* carry 2 or more distinct signal_layer values, each once and with all of
\* its signals, ordered by the number of distinct source names, descending,
\* and then by name, ascending
C13_CrossLayerResult ==
    xpc = "done" =>
        /\ {matches[i].id : i \in 1..Len(matches)}
             = {c \in DOMAIN companies :
                   Cardinality({signals[r].signal_layer : r \in SignalsOf(c)} \ {None}) >= 2}
        /\ \A i, j \in 1..Len(matches) : i # j => matches[i].id # matches[j].id
        /\ \A i \in 1..Len(matches) :
               /\ Len(matches[i].signals) = Cardinality(SignalsOf(matches[i].id))
               /\ \A r \in SignalsOf(matches[i].id) :
                      Cardinality({k \in 1..Len(matches[i].signals) :
                          /\ matches[i].signals[k].source_name = signals[r].source_name
                          /\ matches[i].signals[k].signal_layer = signals[r].signal_layer})
                      = Cardinality({q \in SignalsOf(matches[i].id) :
                          /\ signals[q].source_name = signals[r].source_name
                          /\ signals[q].signal_layer = signals[r].signal_layer})
        /\ \A i, j \in 1..Len(matches) : i < j =>
               LET ci == Cardinality(SourceNames(matches[i].id))
                   cj == Cardinality(SourceNames(matches[j].id))
               IN  \/ ci > cj
                   \/ ci = cj /\ NameLeq(matches[i].name, matches[j].name)

\* two companies were returned, the one with more sources first although its
\* name sorts after the other's, and a company with signals was left out
C13_Witness ==
    /\ xpc = "done"
    /\ Len(matches) = 2
    /\ Cardinality(SourceNames(matches[1].id)) > Cardinality(SourceNames(matches[2].id))
    /\ matches[1].name # matches[2].name
    /\ NameLeq(matches[2].name, matches[1].name)
    /\ \E c \in DOMAIN companies :
           /\ SignalsOf(c) # {}
           /\ \A i \in 1..Len(matches) : matches[i].id # c

\* C14: a call of find_cross_layer_matches leaves every row of companies,
\* signals and programs as it was
C14_CrossLayerReadOnly ==
    [][xpc' # xpc => UNCHANGED storeVars]_vars

\* find_cross_layer_matches has returned matches from a store with signals
C14_Witness ==
    /\ xpc = "done"
    /\ Len(matches) > 0
    /\ signals # <<>>

-----------------------------------------------------------------------------
(* run_scrapers.py main / matcher.py main: one reconciliation pass, which   *)
(* calls find_potential_matches, find_cross_layer_matches and               *)
(* score_all_companies one after the other                                  *)

\* find_potential_matches has started and not returned
MatcherStarted == mpc # "idle"

\* find_potential_matches has returned (run_scrapers.py line 199,
\* matcher.py line 315)
MatcherReturned == mpc = "done"

\* find_cross_layer_matches has returned (run_scrapers.py line 207,
\* matcher.py line 326)
CrossLayerReturned == xpc = "done"

PipeProfiles == {p \in Profiles : p.name \in {S_nova, S_nova_ag, S_novel}}

\* a store of NumCompanies companies with a realtime signal, a curated
\* signal and a program
InitPipe ==
    /\ companies \in [1..NumCompanies -> PipeProfiles]
    /\ \E c1, c2, c3 \in 1..NumCompanies :
           /\ signals = (1 :> Signal(c1, "HackerNews", "realtime", NullMeta, NullTs))
                        @@ (2 :> Signal(c2, "Seedcamp", "curated", NullMeta, Ts(9)))
           /\ programs = (1 :> Program(c3, "Seedcamp", None, NullTs))
    /\ MergeIdle
    /\ ScoreIdle
    /\ CrossIdle
    /\ today = 10 /\ SEVEN_DAYS_AGO = 3
    /\ FunIdle

\* merged = find_potential_matches()
PipeStartMatcher == mpc = "idle" /\ StartConsolidate

\* matches = find_cross_layer_matches()
PipeCrossLayer == MatcherReturned /\ find_cross_layer_matches

\* total = score_all_companies()
PipeStartScorer == CrossLayerReturned /\ spc = "idle" /\ StartRescore

NextPipe ==
    \/ PipeStartMatcher
    \/ TryMerge
    \/ MergeFill
    \/ MergeSignals
    \/ MergePrograms
    \/ MergeDelete
    \/ MergeCommit
    \/ FinishConsolidate
    \/ PipeCrossLayer
    \/ PipeStartScorer
    \/ ScoreNext
    \/ FinishRescore

SpecPipe == InitPipe /\ [][NextPipe]_vars

\* C15: in a pass the cross-layer stage runs only after the merge stage has
\* returned, the scoring stage only after the cross-layer stage has
\* returned, and no company removed by the merge stage is returned by the
\* cross-layer stage or scored by the scoring stage
C15_StagesInOrder ==
    /\ xpc = "done" => mpc = "done"
    /\ spc # "idle" => (mpc = "done" /\ xpc = "done")
    /\ \A i \in 1..Len(matches) : matches[i].id \notin RemovedIds
    /\ spc # "idle" => (DOMAIN heat0) \cap RemovedIds = {}

\* a pass has ended in which a merge brought a realtime and a curated
\* signal to one company, which the cross-layer stage returned and the
\* scoring stage scored
C15_Witness ==
    /\ spc = "done"
    /\ Len(merged) >= 1
    /\ Len(matches) = 1
    /\ \E r \in DOMAIN pre.signals : pre.signals[r].company_id \in RemovedIds
    /\ count = Cardinality(DOMAIN companies)
    /\ matches[1].id \in DOMAIN heat0

-----------------------------------------------------------------------------
(* The score breakdown *)

\* C16: the total of every returned breakdown is the sum of the four
\* reported component scores, floored at 1 and capped at 10, and every
\* component score lies between 0 and its reported max, the maxes being
\* 4, 3, 2 and 1
C16_TotalIsClampedSumOfComponents ==
    ~bd.result.raised =>
        LET c   == bd.result.components
            sum == c.program.score + c.buzz.score + c.sources.score + c.recency.score
        IN  /\ bd.result.total = (IF sum < 1 THEN 1 ELSE IF sum > 10 THEN 10 ELSE sum)
            /\ c.program.max = 4 /\ c.buzz.max = 3
            /\ c.sources.max = 2 /\ c.recency.max = 1
            /\ \A k \in {"program", "buzz", "sources", "recency"} :
                   c[k].score \in 0..c[k].max

\* programs of tier A and tier C, three sources and a HackerNews signal with
\* 150 points and 60 comments detected yesterday: 4 + 2 + 2 + 1 = 9
C16_Witness ==
    /\ ~bd.result.raised
    /\ bd.id \in DOMAIN companies
    /\ {programs[r].program_name : r \in {x \in DOMAIN programs : programs[x].company_id = bd.id}}
         = {"Seedcamp", "Cambridge Enterprise"}
    /\ bd.result.components.program.score = 4
    /\ bd.result.components.buzz.score = 2
    /\ bd.result.components.sources.score = 2
    /\ bd.result.components.recency.score = 1
    /\ bd.result.total = 9

\* the company of the last breakdown has no program and no signal
NoEvidence(id) ==
    /\ \A r \in DOMAIN programs : programs[r].company_id # id
    /\ \A r \in DOMAIN signals : signals[r].company_id # id

\* C17: a breakdown returned for a company without programs and signals,
\* whose previous_heat_score is in 1..10, has total 1, no reasons and
\* rising = FALSE
C17_NoEvidenceScoresOne ==
    [][ (/\ bd' # bd
         /\ ~bd'.result.raised
         /\ bd'.id \in DOMAIN companies
         /\ NoEvidence(bd'.id)
         /\ companies[bd'.id].previous_heat_score \in 1..10)
        => /\ bd'.result.total = 1
           /\ bd'.result.reasons = <<>>
           /\ ~bd'.result.rising
      ]_vars

\* such a breakdown was returned for a company whose previous_heat_score
\* is above 1
C17_Witness ==
    /\ ~bd.result.raised
    /\ bd.id \in DOMAIN companies
    /\ NoEvidence(bd.id)
    /\ companies[bd.id].previous_heat_score \in 2..10
    /\ bd.result.total = 1
    /\ bd.result.reasons = <<>>

\* the detected_at values of the signals and programs of a company
DetectedAtOf(id) ==
    {signals[r].detected_at : r \in {x \in DOMAIN signals : signals[x].company_id = id}}
    \cup {programs[r].detected_at : r \in {x \in DOMAIN programs : programs[x].company_id = id}}

\* C18: the recency component of a returned breakdown is 1 exactly when a
\* signal or program of the company has a parsable detected_at within the
\* 7 days before the day of the evaluation, and 0 otherwise
C18_RecencyIffWithinSevenDays ==
    ~bd.result.raised =>
        /\ bd.result.components.recency.score \in {0, 1}
        /\ bd.result.components.recency.score = 1
             <=> \E ts \in DetectedAtOf(bd.id) :
                    /\ ts.kind = "ok"
                    /\ ts.day >= today - 7
                    /\ ts.day <= today

-----------------------------------------------------------------------------
(* get_score_breakdown on a company with programs only *)

\* the number of programs of the company
MaxPrograms == 2

ProgramChoices ==
    { Program(1, n, c, NullTs) :
        n \in {"Seedcamp", "Venture Kick", "ETH AI Center", "Cambridge Enterprise",
               "Kickstart", "Unlisted Lab"},
        c \in {None, "Stage 1", "Stage 2", "STAGE 3"} }

InitPedigree ==
    /\ companies = (1 :> Company(S_nova, None, NullUrl, None, None, None))
    /\ signals = <<>>
    /\ programs \in UNION {[1..k -> ProgramChoices] : k \in 0..MaxPrograms}
    /\ MergeIdle
    /\ ScoreIdle
    /\ CrossIdle
    /\ today = 10 /\ SEVEN_DAYS_AGO = 3
    /\ FunIdle

NextPedigree == Breakdown

SpecPedigree == InitPedigree /\ [][NextPedigree]_vars

\* the tier points the claim gives a program row
ClaimedTierPoints(p) ==
    CASE p.program_name \in {"Entrepreneur First", "Seedcamp", "Y Combinator", "Techstars"} -> 4
      [] p.program_name = "Venture Kick" ->
             IF p.cohort # None /\ LowerCohort(p.cohort) \in {"stage 2", "stage 3"}
             THEN 4 ELSE 3
      [] p.program_name = "ETH AI Center" -> 3
      [] p.program_name \in {"Cambridge Enterprise", "Imperial Enterprise Lab"} -> 2
      [] OTHER -> 1

\* C19: the program component is 0 for a company without programs, and
\* otherwise the points of its best tier plus 1 for two or more distinct
\* program names, capped at 4
C19_PedigreeIsBestTierPlusBonus ==
    (~bd.result.raised /\ bd.id \in DOMAIN companies) =>
        LET ps    == {r \in DOMAIN programs : programs[r].company_id = bd.id}
            best  == CHOOSE m \in {ClaimedTierPoints(programs[r]) : r \in ps} :
                         \A r \in ps : ClaimedTierPoints(programs[r]) <= m
            bonus == IF Cardinality({programs[r].program_name : r \in ps}) >= 2
                     THEN 1 ELSE 0
        IN  bd.result.components.program.score =
                (IF ps = {} THEN 0
                 ELSE IF best + bonus > 4 THEN 4 ELSE best + bonus)

\* a tier B and a tier C program give 3 + 1 = 4
C19_Witness ==
    /\ ~bd.result.raised
    /\ bd.id \in DOMAIN companies
    /\ {programs[r].program_name : r \in DOMAIN programs}
         = {"ETH AI Center", "Cambridge Enterprise"}
    /\ bd.result.components.program.score = 4

-----------------------------------------------------------------------------
(* get_score_breakdown on a company with signals only *)

\* the number of signals of the company
MaxSignals == 2

\* HackerNews signals with points and comment counts around the thresholds
\* and with metadata that is NULL, no JSON, no object, or an object with a
\* null, non-numeric or missing field; signals of the launch directory, of
\* press outlets and of a program source
SignalChoices ==
    { Signal(1, "HackerNews", "realtime", ObjectMeta(JInt(p), JInt(c)), NullTs) :
        p \in {0, 5, 99, 100, 300}, c \in {0, 49, 50, 100} }
    \cup { Signal(1, "HackerNews", "realtime", m, NullTs) :
             m \in { NullMeta, InvalidMeta, NonObjectMeta,
                     ObjectMeta(JNull, JInt(120)),
                     ObjectMeta(JInt(150), JText),
                     ObjectMeta(JMissing, JInt(60)),
                     ObjectMeta(JInt(0 - 5), JMissing) } }
    \cup { Signal(1, s, "realtime", NullMeta, NullTs) :
             s \in {"ProductHunt", "Sifted", "Tech.eu", "TechCrunch", "EU-Startups"} }
    \cup { Signal(1, "Seedcamp", "curated", NullMeta, NullTs) }

InitBuzz ==
    /\ companies = (1 :> Company(S_nova, None, NullUrl, None, None, None))
    /\ signals \in UNION {[1..k -> SignalChoices] : k \in 0..MaxSignals}
    /\ programs = <<>>
    /\ MergeIdle
    /\ ScoreIdle
    /\ CrossIdle
    /\ today = 10 /\ SEVEN_DAYS_AGO = 3
    /\ FunIdle

NextBuzz == Breakdown

SpecBuzz == InitBuzz /\ [][NextBuzz]_vars

\* the points and the comment count a HackerNews signal carries: those of
\* a metadata object whose two fields are integers or missing (missing = 0);
\* any other metadata counts as absent
ClaimedHN(s) ==
    IF /\ s.metadata.kind = "object"
       /\ s.metadata.points.t \in {"int", "missing"}
       /\ s.metadata.num_comments.t \in {"int", "missing"}
    THEN [points |-> IF s.metadata.points.t = "int" THEN s.metadata.points.v ELSE 0,
          comments |-> IF s.metadata.num_comments.t = "int"
                       THEN s.metadata.num_comments.v ELSE 0]
    ELSE [points |-> 0, comments |-> 0]

\* C20: the buzz component is min(3, h + p + n): h from the best HackerNews
\* points and the best comment count, p for a ProductHunt signal, n the
\* number of distinct press sources among the signals
C20_BuzzIsCappedSum ==
    (~bd.result.raised /\ bd.id \in DOMAIN companies) =>
        LET ss  == {r \in DOMAIN signals : signals[r].company_id = bd.id}
            hn  == {r \in ss : signals[r].source_name = "HackerNews"}
            pts == {0} \cup {ClaimedHN(signals[r]).points : r \in hn}
            cms == {0} \cup {ClaimedHN(signals[r]).comments : r \in hn}
            bp  == CHOOSE m \in pts : \A x \in pts : x <= m
            bc  == CHOOSE m \in cms : \A x \in cms : x <= m
            h   == IF bp >= 300 \/ bc >= 100 THEN 3
                   ELSE IF bp >= 100 \/ bc >= 50 THEN 2
                   ELSE IF bp > 0 THEN 1 ELSE 0
            p   == IF \E r \in ss : signals[r].source_name = "ProductHunt" THEN 1 ELSE 0
            n   == Cardinality({signals[r].source_name : r \in ss}
                       \cap {"Sifted", "Tech.eu", "TechCrunch", "EU-Startups"})
        IN  bd.result.components.buzz.score = (IF h + p + n > 3 THEN 3 ELSE h + p + n)

\* a HackerNews signal with 300 points and a ProductHunt signal: 3 + 1,
\* capped at 3
C20_Witness ==
    /\ ~bd.result.raised
    /\ bd.id \in DOMAIN companies
    /\ \E r \in DOMAIN signals :
           /\ signals[r].source_name = "HackerNews"
           /\ signals[r].metadata.kind = "object"
           /\ signals[r].metadata.points = JInt(300)
    /\ \E r \in DOMAIN signals : signals[r].source_name = "ProductHunt"
    /\ bd.result.components.buzz.score = 3

-----------------------------------------------------------------------------
(* The reasons of a breakdown *)

\* the points a reason of the buzz component announces
BuzzReasonPoints(reason) ==
    CASE reason = "HN viral" -> 3
      [] reason = "HN traction" -> 2
      [] reason \in {"HN signal", "ProductHunt launch", "Press"} -> 1
      [] OTHER -> 0

\* the points the reasons before position k announce for the buzz component
RECURSIVE BuzzPointsBefore(_, _)
BuzzPointsBefore(reasons, k) ==
    IF k <= 1 THEN 0
    ELSE BuzzReasonPoints(reasons[k - 1]) + BuzzPointsBefore(reasons, k - 1)

\* C21: every entry of the reasons of a returned breakdown stands for a
\* sub-rule that contributed points to the total: no entry of the buzz
\* component comes after the entries before it have used up the cap of 3
C21_NoReasonForPointsCutOff ==
    ~bd.result.raised =>
        \A k \in 1..Len(bd.result.reasons) :
            BuzzReasonPoints(bd.result.reasons[k]) > 0
                => BuzzPointsBefore(bd.result.reasons, k) < 3

-----------------------------------------------------------------------------
(* Malformed evidence *)

\* C22: whatever the metadata and the detected_at of the signals and the
\* programs are, no breakdown raises and no rescoring pass is left by an
\* exception before every company is scored
C22_MalformedEvidenceNeverRaises ==
    /\ bd # NoBreakdown => ~bd.result.raised
    /\ spc # "raised"

-----------------------------------------------------------------------------
(* What a rescoring pass leaves in the store *)

\* C23: when a rescoring pass returns, the count it returns is the number of
\* companies in the store, and the heat_score of every company is the total
\* of the breakdown computed on that store at that evaluation time
C23_RescoreStoresTheTotals ==
    spc = "done" =>
        /\ count = Len(companies)
        /\ \A c \in DOMAIN companies :
               LET r == get_score_breakdown(Store, c, today, SEVEN_DAYS_AGO)
               IN  ~r.raised /\ companies[c].heat_score = r.total

\* a pass has returned that scored two companies differently and changed a
\* score
C23_Witness ==
    /\ spc = "done"
    /\ count = 2
    /\ companies[1].heat_score # companies[2].heat_score
    /\ \E c \in DOMAIN companies : companies[c].heat_score # heat0[c]

-----------------------------------------------------------------------------
(* The pairs a consolidation pass skips *)

\* the pairs of the name buckets and of the domain index, by position
NamePairs == 1..Len(IndexPairs(buckets, 1))
DomainPairs == (Len(IndexPairs(buckets, 1)) + 1)..Len(pairs)

\* pair k of the pass matches and holds the removed id of a merge of another
\* pair, and no merge of the pass is a merge of pair k: the pair was skipped
SkippedForRemovedId(k) ==
    LET a == pairs[k][1]
        b == pairs[k][2]
    IN  /\ _is_fuzzy_match(snap[a].name, snap[b].name,
                           snap[a].website, snap[b].website).match
        /\ \E i \in 1..Len(merged) :
               /\ merged[i].remove_id \in {a, b}
               /\ {merged[i].keep_id, merged[i].remove_id} # {a, b}
        /\ \A i \in 1..Len(merged) :
               {merged[i].keep_id, merged[i].remove_id} # {a, b}

\* C24: within one pass, a merge is never started for a pair of one
\* company with itself or for a pair with an id the pass has removed; so
\* no company is removed twice and no removed company is the keeper of a
\* later merge
C24_RemovedIdsAreSkipped ==
    /\ mpc \in {"merge_fill", "merge_signals", "merge_programs", "merge_delete",
                "merge_commit"}
           => /\ cur.keep # cur.remove
              /\ cur.keep \notin deleted_ids
              /\ cur.remove \notin deleted_ids
    /\ \A i, j \in 1..Len(merged) :
           i < j => /\ merged[j].remove_id # merged[i].remove_id
                    /\ merged[j].keep_id # merged[i].remove_id

\* a pass is over in which a matching pair of a name bucket and a matching
\* pair of the domain index were skipped for a removed id
C24_Witness ==
    /\ mpc = "done"
    /\ \E k \in NamePairs : SkippedForRemovedId(k)
    /\ \E k \in DomainPairs : SkippedForRemovedId(k)

-----------------------------------------------------------------------------
(* The order of the matching rules *)

\* a name that reads like a post title: it starts, in any case, with one of
\* the listed openings, or it has more than 6 words
TitleLike(name) ==
    \/ \E p \in title_starts : StartsWith(Lower(name), p)
    \/ WordCount(name) > 6

\* C25: the rules of _is_fuzzy_match apply in the order title filter, equal
\* normalized names, domain, containment, and the first that applies gives
\* the result and the reason: a pair with a title-like name is (FALSE, "")
\* whatever the names and the websites are; otherwise equal normalized
\* names give the exact-name reason whatever the later rules would say
C25_FirstRuleDecides ==
    fout # <<>> =>
        LET na == _normalize_name(fin.name_a)
            nb == _normalize_name(fin.name_b)
            r  == fout[1].is_match
        IN  IF TitleLike(fin.name_a) \/ TitleLike(fin.name_b)
            THEN ~r.match /\ r.reason = ""
            ELSE IF na = nb
            THEN r.match /\ r.reason = "exact name match (after suffix normalization)"
            ELSE IF DomainRuleApplies
            THEN r.match /\ r.reason = "same domain"
            ELSE IF ContainmentRule(na, nb)
            THEN r.match /\ r.reason = "name containment match"
            ELSE ~r.match /\ r.reason = ""

\* two records with the same name of more than 6 words and the same website
\* on a domain of their own were compared and did not match
C25_Witness ==
    /\ fout # <<>>
    /\ fin.name_a = fin.name_b
    /\ WordCount(fin.name_a) > 6
    /\ fin.website_a = Url(<<"nova", "com">>)
    /\ fin.website_b = fin.website_a
    /\ ~fout[1].is_match.match
    /\ fout[1].is_match.reason = ""

-----------------------------------------------------------------------------
(* A merge that fails *)

\* C26: a merge whose re-parenting meets an integrity error (the keeper was
\* deleted by another pass) fails alone: the error does not leave the
\* consolidation pass, which goes on with the pairs that remain
C26_FailedMergeStaysInsideThePass ==
    mpc # "raised"

-----------------------------------------------------------------------------
(* The order of a rescoring pass *)

\* the store with the evidence of company c alone: the signals and the
\* programs of the other companies are gone and their scores are reset
OwnStore(c) ==
    [companies |-> [o \in DOMAIN companies |->
                       IF o = c THEN companies[o]
                       ELSE [companies[o] EXCEPT !.heat_score = 1,
                                                 !.previous_heat_score = 1]],
     signals   |-> [s \in {x \in DOMAIN signals : signals[x].company_id = c}
                       |-> signals[s]],
     programs  |-> [p \in {x \in DOMAIN programs : programs[x].company_id = c}
                       |-> programs[p]]]

\* C27: the outcome of a rescoring pass does not depend on the order in
\* which the companies are taken: when the pass has ended, every company
\* whose own evidence can be scored has the total of its own evidence as
\* heat_score, whatever the other companies hold, and every company has the
\* heat_score it had before the pass as previous_heat_score
C27_RescoreIsOrderIndependent ==
    spc \in {"done", "raised"} =>
        \A c \in DOMAIN companies :
            LET own == get_score_breakdown(OwnStore(c), c, today, SEVEN_DAYS_AGO)
            IN  /\ companies[c].previous_heat_score = heat0[c]
                /\ ~own.raised => companies[c].heat_score = own.total

-----------------------------------------------------------------------------
(* The accounting of a consolidation pass *)

\* the ids that are the keeper or the removed side of an entry of the report
Touched == UNION {{merged[i].keep_id, merged[i].remove_id} : i \in 1..Len(merged)}

\* the rows of a table that belong to company c
OwnRows(table, c) ==
    [r \in {x \in DOMAIN table : table[x].company_id = c} |-> table[r]]

\* the two ids lie together in a bucket of the index
ShareBucket(index, a, b) ==
    \E k \in DOMAIN index :
        \E i, j \in DOMAIN index[k] : index[k][i] = a /\ index[k][j] = b

\* C28: when a pass returns, the store has as many companies fewer as the
\* report has entries; the removed companies are those of the report's
\* removed sides, each in one entry; every entry is a pair that shares a
\* name bucket or a domain bucket and that _is_fuzzy_match accepts; and a
\* company that is on neither side of any entry is as it was before the
\* pass, with its signals and its programs
C28_PassAccounting ==
    mpc = "done" =>
        /\ Cardinality(DOMAIN companies)
               = Cardinality(DOMAIN pre.companies) - Len(merged)
        /\ DOMAIN pre.companies \ DOMAIN companies = RemovedIds
        /\ \A i, j \in 1..Len(merged) :
               merged[i].remove_id = merged[j].remove_id => i = j
        /\ \A i \in 1..Len(merged) :
               LET a == pre.companies[merged[i].keep_id]
                   b == pre.companies[merged[i].remove_id]
               IN  /\ \/ ShareBucket(buckets, merged[i].keep_id, merged[i].remove_id)
                      \/ ShareBucket(domain_index, merged[i].keep_id, merged[i].remove_id)
                   /\ _is_fuzzy_match(a.name, b.name, a.website, b.website).match
        /\ \A c \in DOMAIN pre.companies \ Touched :
               /\ c \in DOMAIN companies
               /\ companies[c] = pre.companies[c]
               /\ OwnRows(signals, c) = OwnRows(pre.signals, c)
               /\ OwnRows(programs, c) = OwnRows(pre.programs, c)

\* a pass has returned that merged one pair and left a company with a signal
\* or a program of its own on neither side of the report
C28_Witness ==
    /\ mpc = "done"
    /\ Len(merged) = 1
    /\ \E c \in DOMAIN companies \ Touched :
           DOMAIN OwnRows(signals, c) \cup DOMAIN OwnRows(programs, c) # {}

-----------------------------------------------------------------------------
(* Two rescoring passes in succession *)

\* C29: when a second rescoring pass has returned, with the companies'
\* evidence and the outcome of the recency test as they were in the first,
\* every company has previous_heat_score = heat_score and its breakdown
\* reports rising = FALSE
C29_SecondRescoreIsSteady ==
    (spc = "done" /\ rescored = 2) =>
        \A c \in DOMAIN companies :
            /\ companies[c].previous_heat_score = companies[c].heat_score
            /\ ~get_score_breakdown(Store, c, today, SEVEN_DAYS_AGO).rising

\* after a second pass, the breakdown of a company of total 4 or more was
\* asked for and reports no rise
C29_Witness ==
    /\ spc = "done"
    /\ rescored = 2
    /\ bd.id \in DOMAIN companies
    /\ ~bd.result.raised
    /\ bd.result.total >= 4
    /\ ~bd.result.rising
    /\ companies[bd.id].previous_heat_score = bd.result.total

-----------------------------------------------------------------------------
(* The cross-layer flag of the API *)

\* C30: the is_cross_layer flag the API gives for a company is TRUE exactly
\* when find_cross_layer_matches, on the same store, returns the company,
\* whatever signal_layer values the company's signals carry
C30_FlagAgreesWithCrossLayerMatches ==
    (xpc = "done" /\ fout # <<>>) =>
        (fout[1].is_cross_layer
            <=> \E i \in 1..Len(matches) : matches[i].id = fout[1].id)

=============================================================================
